---- MODULE Spec2Model ----
(***************************************************************************)
(* Model of the TOC service (akosk/toc-service): title extraction, ordered *)
(* title resolution, font-size scan, TOC layout, the page-number pass of   *)
(* main() and the assembly of the output document.                         *)
(*                                                                         *)
(* Text is modelled as sequences of one-character strings, a page's        *)
(* get_text("text") as the sequence of its lines (what splitlines() gives),*)
(* a page's get_text("dict") as its sequence of blocks.  Lengths are in    *)
(* tenths of a millimetre (the code's n * mm, times ten).                  *)
(***************************************************************************)
EXTENDS Integers, Sequences, FiniteSets, TLC

VARIABLES mode, doc, height, pc, toc_titles, start, items, toc_pages,
          toc_file, out, err, err_title, fonts, steps, counts, low

vars == << mode, doc, height, pc, toc_titles, start, items, toc_pages,
           toc_file, out, err, err_title, fonts, steps, counts, low >>

(***************************************************************************)
(* Bounds of the model.                                                    *)
(***************************************************************************)
\* pages of a document after its first two (cover, colophon)
MaxBody == 2
\* titles handed to a direct call of find_title_occurrence_ordered
MaxTitles == 2

(***************************************************************************)
(* Characters and strings.                                                 *)
(***************************************************************************)
UpperCase == << "A", "B", "C", "D", "L", "M", "O", "R", "T", "X" >>
LowerCase == << "a", "b", "c", "d", "l", "m", "o", "r", "t", "x" >>
Letters ==
  { UpperCase[i] : i \in 1..Len(UpperCase) }
    \cup { LowerCase[i] : i \in 1..Len(LowerCase) }
    \cup { "y", "z", "w" }
Digits == { "0", "1", "2", "3", "4", "5", "6", "7", "8", "9" }
\* \w of the re module
WordChars == Letters \cup Digits \cup { "_" }
\* \s of the re module (the members that occur in the sample pages)
Whitespace == { " ", "\t" }

\* str.lower(), one character
LowerChar(c) ==
  IF \E i \in 1..Len(UpperCase) : UpperCase[i] = c
    THEN LowerCase[CHOOSE i \in 1..Len(UpperCase) : UpperCase[i] = c]
    ELSE c

\* str.lower()
lower(s) == [ i \in 1..Len(s) |-> LowerChar(s[i]) ]

RECURSIVE LStrip(_)
LStrip(s) ==
  IF s # << >> /\ Head(s) \in Whitespace THEN LStrip(Tail(s)) ELSE s

RECURSIVE RStrip(_)
RStrip(s) ==
  IF s # << >> /\ s[Len(s)] \in Whitespace
    THEN RStrip(SubSeq(s, 1, Len(s) - 1))
    ELSE s

\* str.strip()
strip(s) == RStrip(LStrip(s))

\* re.sub(r"\s+", " ", s): every run of whitespace becomes one space
RECURSIVE CollapseWs(_)
CollapseWs(s) ==
  IF s = << >> THEN << >>
  ELSE IF Head(s) \in Whitespace
    THEN << " " >> \o CollapseWs(LStrip(s))
    ELSE << Head(s) >> \o CollapseWs(Tail(s))

normalize_line(s) == CollapseWs(strip(s))

\* t occurs in s at position i
OccursAt(s, t, i) ==
  /\ i >= 1
  /\ i + Len(t) - 1 <= Len(s)
  /\ SubSeq(s, i, i + Len(t) - 1) = t

\* re.search(re.escape(t), s) on one line
IsSubstring(s, t) == \E i \in 1..(Len(s) + 1) : OccursAt(s, t, i)

\* re.search(r"\bWORD\b", s) on one line, for a word of word characters
ContainsWord(s, word) ==
  \E i \in 1..Len(s) :
    /\ OccursAt(s, word, i)
    /\ (i = 1 \/ s[i - 1] \notin WordChars)
    /\ (i + Len(word) - 1 = Len(s) \/ s[i + Len(word)] \notin WordChars)

\* re.fullmatch(r"\d+", s)
PureDigits(s) == s # << >> /\ \A i \in 1..Len(s) : s[i] \in Digits

\* the heading literal of the extraction: "Tartalom"
Heading == << "T", "a", "r", "t", "a", "l", "o", "m" >>

(***************************************************************************)
(* Documents.  A page is [text, blocks]: text is get_text("text") split    *)
(* into lines, blocks is get_text("dict")["blocks"]; a block is            *)
(* [type, lines], a line is its sequence of spans, a span is [size, text]. *)
(***************************************************************************)
page_count(d) == Len(d)

\* doc[p].get_text("text").splitlines(), p a 0-based page index
PageText(d, p) == d[p + 1].text

\* re.search(rf"(?m)^\s*{pattern}\s*$", txt) on one line: the title with
\* nothing but whitespace before and after it
FullLineMatch(line, t) ==
  \E i \in 1..(Len(line) + 1) :
    /\ OccursAt(line, t, i)
    /\ \A j \in 1..(i - 1) : line[j] \in Whitespace
    /\ \A j \in (i + Len(t))..Len(line) : line[j] \in Whitespace

\* the two searches of the resolver's inner loop, in the code's order
PageHasFullLine(d, p, t) ==
  \E k \in 1..Len(PageText(d, p)) : FullLineMatch(PageText(d, p)[k], t)

PageHasSubstring(d, p, t) ==
  \E k \in 1..Len(PageText(d, p)) : IsSubstring(PageText(d, p)[k], t)

\* [f(x) for x in s]
RECURSIVE MapNormalize(_)
MapNormalize(s) ==
  IF s = << >> THEN << >>
  ELSE << normalize_line(Head(s)) >> \o MapNormalize(Tail(s))

NonEmpty(l) == l # << >>

page_lines(d, p) == SelectSeq(MapNormalize(PageText(d, p)), NonEmpty)

\* the page indexes whose text holds the heading as a whole word
HeadingPages(d) ==
  { i \in 0..(page_count(d) - 1) :
      \E k \in 1..Len(PageText(d, i)) : ContainsWord(PageText(d, i)[k], Heading) }

\* -1 stands for the RuntimeError of find_toc_page_index
find_toc_page_index(d) ==
  IF HeadingPages(d) = {} THEN -1
  ELSE CHOOSE i \in HeadingPages(d) : \A j \in HeadingPages(d) : i <= j

\* the loop of extract_toc_titles over the lines of the heading page
RECURSIVE CollectTitles(_, _, _, _)
CollectTitles(lines, i, in_toc, titles) ==
  IF i > Len(lines) THEN titles
  ELSE IF lines[i] = Heading THEN CollectTitles(lines, i + 1, TRUE, titles)
  ELSE IF ~in_toc THEN CollectTitles(lines, i + 1, in_toc, titles)
  ELSE IF PureDigits(lines[i]) THEN CollectTitles(lines, i + 1, in_toc, titles)
  ELSE CollectTitles(lines, i + 1, in_toc, Append(titles, lines[i]))

CollectAll(lines) == CollectTitles(lines, 1, TRUE, << >>)

CollectAfterHeading(lines) == CollectTitles(lines, 1, FALSE, << >>)

\* t and t.lower() != "tartalom"
KeepTitle(t) == t # << >> /\ lower(t) # lower(Heading)

\* the title list handed back whatever its length
ExtractReturnsEmpty(d) ==
  LET toc_i == find_toc_page_index(d) IN
  IF toc_i = -1
    THEN [ err |-> "HeadingNotFound", titles |-> << >> ]
    ELSE [ err |-> "none",
           titles |-> SelectSeq(CollectAfterHeading(page_lines(d, toc_i)), KeepTitle) ]

extract_toc_titles(d) ==
  LET toc_i == find_toc_page_index(d) IN
  IF toc_i = -1
    THEN [ err |-> "HeadingNotFound", titles |-> << >> ]
    ELSE LET titles == SelectSeq(CollectAfterHeading(page_lines(d, toc_i)), KeepTitle) IN
         IF titles = << >>
           THEN [ err |-> "EmptyTitleList", titles |-> << >> ]
           ELSE [ err |-> "none", titles |-> titles ]

(***************************************************************************)
(* Chapter detection and title -> page resolution.                         *)
(***************************************************************************)
StrippedLines(d, p) ==
  SelectSeq([ k \in 1..Len(PageText(d, p)) |-> strip(PageText(d, p)[k]) ], NonEmpty)

is_chapter_title_page(d, p, title) ==
  /\ Len(StrippedLines(d, p)) <= 3
  /\ \E k \in 1..Len(StrippedLines(d, p)) : StrippedLines(d, p)[k] = title

TocItem(t, orig, final, lvl) ==
  [ title |-> t, orig_page_1based |-> orig, final_page_1based |-> final, level |-> lvl ]

\* the first page taken by the inner loop preferring a full-line page anywhere
\* in the range over an earlier page that holds the title inside a line
FirstMatchPreferLine(d, t, cursor_page) ==
  LET full == { p \in cursor_page..(page_count(d) - 1) : PageHasFullLine(d, p, t) }
      any == { p \in cursor_page..(page_count(d) - 1) : PageHasSubstring(d, p, t) }
      pick == IF full # {} THEN full ELSE any
  IN IF pick = {} THEN -1 ELSE CHOOSE p \in pick : \A q \in pick : p <= q

\* the inner loop: the first p in range(cursor_page, page_count) where either
\* search succeeds; -1 stands for found_page = None
RECURSIVE ScanPages(_, _, _)
ScanPages(d, t, p) ==
  IF p >= page_count(d) THEN -1
  ELSE IF PageHasFullLine(d, p, t) THEN p
  ELSE IF PageHasSubstring(d, p, t) THEN p
  ELSE ScanPages(d, t, p + 1)

FirstMatch(d, t, cursor_page) == ScanPages(d, t, cursor_page)

\* the cursor left where it was after a match
SameCursor(found_page) == found_page

\* cursor_page = found_page + 1
NextCursor(found_page) == found_page + 1

\* the search of every title restarted at page 0
SearchFromZero(cursor_page) == 0

\* the first page of range(cursor_page, doc.page_count)
SearchFrom(cursor_page) == cursor_page

\* the outer loop, from title k on; a missing title raises
RECURSIVE ResolveFrom(_, _, _, _, _)
ResolveFrom(d, titles, k, cursor_page, acc) ==
  IF k > Len(titles) THEN [ err |-> "none", title |-> << >>, items |-> acc ]
  ELSE
    LET t == titles[k]
        found_page == FirstMatch(d, t, SearchFrom(cursor_page))
    IN IF found_page = -1
         THEN [ err |-> "TitleNotFound", title |-> t, items |-> << >> ]
         ELSE
           LET level == IF is_chapter_title_page(d, found_page, t) THEN 0 ELSE 1 IN
           ResolveFrom(d, titles, k + 1, NextCursor(found_page),
                       Append(acc, TocItem(t, found_page + 1, -1, level)))

find_title_occurrence_ordered(d, titles, start_search_page_index) ==
  ResolveFrom(d, titles, 1, start_search_page_index, << >>)

(***************************************************************************)
(* Scan mode: the first span of the first line of the first text block.    *)
(***************************************************************************)
\* start_page = 2 (0 = cover, 1 = colophon)
ScanStartPage == 2
\* the two font-size thresholds of the classification
ChapterMinSize == 24
PoemMinSize == 16

IsTextBlock(b) == b.type = 0

\* "".join(s["text"] for s in spans)
RECURSIVE JoinSpans(_)
JoinSpans(spans) ==
  IF spans = << >> THEN << >> ELSE Head(spans).text \o JoinSpans(Tail(spans))

\* level = -1; if size > 24: 0; elif 16 < size < 24: 1
ClassifyLevel(size) ==
  IF size > ChapterMinSize THEN 0
  ELSE IF PoemMinSize < size /\ size < ChapterMinSize THEN 1
  ELSE -1

\* the 0-based index written as the entry's page
OrigPageSame(p) == p

\* orig_page_1based = p + 1
OrigPageOf(p) == p + 1

\* one pass of the loop body for page index p: the items it appends
ScanPage(d, p) ==
  LET text_blocks == SelectSeq(d[p + 1].blocks, IsTextBlock) IN
  IF text_blocks = << >> THEN << >>
  ELSE IF text_blocks[1].lines = << >> THEN << >>
  ELSE IF text_blocks[1].lines[1].spans = << >> THEN << >>
  ELSE
    LET spans == text_blocks[1].lines[1].spans
        size == spans[1].size
        title == normalize_line(JoinSpans(spans))
        level == ClassifyLevel(size)
    IN IF title = << >> THEN << >>
       ELSE IF level # -1 THEN << TocItem(title, OrigPageOf(p), -1, level) >>
       ELSE << >>

RECURSIVE ScanFrom(_, _)
ScanFrom(d, p) ==
  IF p >= page_count(d) THEN << >> ELSE ScanPage(d, p) \o ScanFrom(d, p + 1)

build_toc_from_scan(d) == ScanFrom(d, ScanStartPage)

(***************************************************************************)
(* TOC layout.  y runs down from the top margin; lengths in 0.1 mm.  The    *)
(* code's cursor is a float (points): where the exact sum puts a row on    *)
(* the bottom margin itself, the float is a last digit below the margin or *)
(* not, and the comparison y < bottom goes either way (98.6 mm page, four  *)
(* chapter rows: below; 85.6 mm page, four poem rows: not below).  lo is  *)
(* the set of rows at which the float cursor is below its exact value.     *)
(***************************************************************************)
\* top = h - 25 * mm
TopMargin == 250
\* bottom = 30 * mm
BottomMargin == 300
\* y -= 12 * mm after the heading
HeadingSpace == 120
\* y -= 2.5 * mm before a chapter row
ChapterGap == 25
\* row_h of a chapter row, 7.2 * mm
ChapterRowHeight == 72
\* row_h of a poem row, 6.2 * mm
PoemRowHeight == 62

RowHeight(item) == IF item.level = 0 THEN ChapterRowHeight ELSE PoemRowHeight

\* the cursor left at the top of a new page, the heading space forgotten
CursorAtTop(h) == h - TopMargin

\* after showPage(): y = top; the heading is drawn; y -= 12 * mm
CursorOnNewPage(h) == (h - TopMargin) - HeadingSpace

\* if y < bottom, on the float cursor of row i: y1 is its exact value
CursorBelowMargin(y1, i, lo) ==
  y1 < BottomMargin \/ (y1 = BottomMargin /\ i \in lo)

\* the loop over toc_items from item i on, with the cursor at y after
\* breaks calls of showPage(); rows collects what is drawn: the title, the
\* printed page number, the TOC page it lands on and the cursor of the row,
\* with the cursor the page-break test saw (exact value, and whether the
\* float was below the margin), whether showPage() was called before the
\* row and whether the heading was drawn again
RECURSIVE LayoutFrom(_, _, _, _, _, _, _)
LayoutFrom(toc_items, h, lo, i, y, breaks, rows) ==
  IF i > Len(toc_items)
    THEN [ pages |-> breaks + 1, breaks |-> breaks, rows |-> rows ]
  ELSE
    LET item == toc_items[i]
        y1 == IF item.level = 0 THEN y - ChapterGap ELSE y
        brk == CursorBelowMargin(y1, i, lo)
        y2 == IF brk THEN CursorOnNewPage(h) ELSE y1
        breaks2 == IF brk THEN breaks + 1 ELSE breaks
        row == [ title |-> item.title, printed |-> item.final_page_1based,
                 toc_page |-> breaks2 + 1, y |-> y2,
                 tested |-> y1, below |-> brk, new_page |-> brk, heading |-> brk ]
    IN LayoutFrom(toc_items, h, lo, i + 1, y2 - RowHeight(item), breaks2,
                  Append(rows, row))

\* what render_toc_pdf saves at out_path: the pages laid out (one more than
\* the page breaks) and the rows on them
Layout(toc_items, h, lo) ==
  LayoutFrom(toc_items, h, lo, 1, (h - TopMargin) - HeadingSpace, 0, << >>)

\* the rows of a layout whose exact cursor met the bottom margin
TieRows(file) ==
  { i \in 1..Len(file.rows) : file.rows[i].tested = BottomMargin }

\* the ways the float sums of one page size and one list of levels can
\* fall: any set of the rows that come to the margin
Roundings(toc_items, h) ==
  { lo \in SUBSET (1..Len(toc_items)) :
      lo \subseteq TieRows(Layout(toc_items, h, lo)) }

\* the value render_toc_pdf hands back, as a sequence of at most one number:
\* 000_toc.py ends in "return 1", toc_core.py in no return at all (None)
RenderReturn(m, toc_items, h) == IF m = "main" THEN << 1 >> ELSE << >>

(***************************************************************************)
(* Fonts.  env is the set of font files that exist.                        *)
(***************************************************************************)
GaramondFiles == { "EBGaramond-Regular.ttf", "EBGaramond-Medium.ttf" }
TimesFiles == { "times.ttf", "timesbd.ttf" }
DejaVuFiles == { "DejaVuSerif.ttf" }

\* the registered << regular, medium >> names; << >> stands for the
\* RuntimeError.  Only 000_toc.py falls back to DejaVu Serif.
register_eb_garamond(m, env) ==
  IF GaramondFiles \subseteq env THEN << "EBGaramond", "EBGaramond-Medium" >>
  ELSE IF TimesFiles \subseteq env THEN << "TOC-Regular", "TOC-Medium" >>
  ELSE IF m = "main" /\ DejaVuFiles \subseteq env THEN << "TOC-Regular", "TOC-Medium" >>
  ELSE << >>

\* the layout drawn and saved before the fonts are looked up
RenderDrawsFirst(m, toc_items, h, env, file, lo) ==
  IF register_eb_garamond(m, env) = << >>
    THEN [ err |-> "FontResourceMissing", file |-> Layout(toc_items, h, lo) ]
    ELSE [ err |-> "none", file |-> Layout(toc_items, h, lo) ]

\* render_toc_pdf as a whole: the fonts first, then the canvas, the rows
\* and save(); file is what out_path held before
RenderOutcome(m, toc_items, h, env, file, lo) ==
  IF register_eb_garamond(m, env) = << >>
    THEN [ err |-> "FontResourceMissing", file |-> file ]
    ELSE [ err |-> "none", file |-> Layout(toc_items, h, lo) ]

(***************************************************************************)
(* The page-number pass of main() and the assembly of the output.          *)
(***************************************************************************)
\* insertion_index = doc.page_count
insertion_index(d) == page_count(d)

\* the shift applied from the insertion page itself on
ShiftedFromInsertion(orig, insertion, k) ==
  IF orig >= insertion THEN orig + k ELSE orig

\* if it.orig_page_1based >= (insertion_index + 1): orig + toc_pages, else orig
ShiftedPage(orig, insertion, k) ==
  IF orig >= insertion + 1 THEN orig + k ELSE orig

\* the placeholder assignment the wrong way round
SeedIntoOrig(its) ==
  [ i \in 1..Len(its) |-> [ its[i] EXCEPT !.orig_page_1based = its[i].final_page_1based ] ]

\* for it in items: it.final_page_1based = it.orig_page_1based
SeedItems(its) ==
  [ i \in 1..Len(its) |-> [ its[i] EXCEPT !.final_page_1based = its[i].orig_page_1based ] ]

RecomputeItems(its, insertion, k) ==
  [ i \in 1..Len(its) |->
      [ its[i] EXCEPT !.final_page_1based = ShiftedPage(its[i].orig_page_1based, insertion, k) ] ]

\* the further pass taken after every second render
AlwaysThirdPass(k0, k1) == TRUE

\* if toc_pages2 != toc_pages
NeedsThirdPass(k0, k1) == k1 # k0

\* a pass that keeps the numbers it finds and adds the TOC page count to them
SolverInPlace(m, its, d, h, lo) ==
  LET seeded == [ i \in 1..Len(its) |->
                    IF its[i].final_page_1based = -1
                      THEN [ its[i] EXCEPT !.final_page_1based = its[i].orig_page_1based ]
                      ELSE its[i] ]
      k0 == IF m = "main" THEN RenderReturn(m, seeded, h)[1] ELSE 0
      moved == [ i \in 1..Len(its) |->
                   [ seeded[i] EXCEPT !.final_page_1based = seeded[i].final_page_1based + k0 ] ]
  IN [ items |-> moved, toc_pages |-> k0, file |-> Layout(moved, h, lo) ]

\* the page-number pass as a whole, fonts present: steps 4 to 6 of main(),
\* and the placeholder pass and the one render of the runners; every
\* render of a pass does the same float sums, so lo is the same in each
Solver(m, its, d, h, lo) ==
  LET seeded == SeedItems(its) IN
    IF m # "main"
      THEN [ items |-> seeded, toc_pages |-> 0, file |-> Layout(seeded, h, lo) ]
      ELSE LET k0 == RenderReturn(m, seeded, h)[1]
               pass1 == RecomputeItems(seeded, insertion_index(d), k0)
               k1 == RenderReturn(m, pass1, h)[1]
               third == NeedsThirdPass(k0, k1)
               last == IF third THEN RecomputeItems(pass1, insertion_index(d), k1)
                       ELSE pass1
           IN [ items |-> last, toc_pages |-> IF third THEN k1 ELSE k0,
                file |-> Layout(last, h, lo) ]

SourcePages(d) == [ i \in 1..page_count(d) |-> [ from |-> "src", page |-> i ] ]

\* the rows of a rendered file that lie on its page j
RowsOnPage(file, j) ==
  LET OnPage(r) == r.toc_page = j IN SelectSeq(file.rows, OnPage)

\* the pages of toc_doc = fitz.open(toc_pdf), each with the rows drawn on it
TocPages(file) ==
  [ j \in 1..file.pages |-> [ from |-> "toc", page |-> j, rows |-> RowsOnPage(file, j) ] ]

\* the TOC pages put in front of the original ones
AssembleTocFirst(d, file) == TocPages(file) \o SourcePages(d)

\* the original pages left out
AssembleTocOnly(d, file) == TocPages(file)

\* out.insert_pdf(doc); out.insert_pdf(toc_doc)
AssembleOutput(d, file) == SourcePages(d) \o TocPages(file)

\* the runners render into a temporary directory that is removed when its
\* with block is left; TOC_TMP_PDF of main() stays
TocFileAfterMerge(m, file) ==
  IF m = "main" THEN file ELSE [ pages |-> 0, breaks |-> 0, rows |-> << >> ]

(***************************************************************************)
(* The imports of the runners.                                             *)
(***************************************************************************)
\* the names the module toc_core (toc_core.py) defines
toc_core ==
  { "TocItem", "normalize_line", "page_lines", "build_toc_from_scan",
    "register_eb_garamond", "draw_dot_leader", "render_toc_pdf" }

\* from toc_core import (...) of toc-runner.py and of toc_runner.py;
\* 000_toc.py imports nothing of the repository
ImportedNames(m) ==
  IF m = "runner_extract"
    THEN { "extract_toc_titles", "find_title_occurrence_ordered", "render_toc_pdf" }
  ELSE IF m = "runner_scan" THEN { "build_toc_from_scan", "render_toc_pdf" }
  ELSE {}

\* the import fails on a name the module does not define
ImportFails(m) == ~(ImportedNames(m) \subseteq toc_core)

(***************************************************************************)
(* Sample pages and the documents built from them.                         *)
(***************************************************************************)
sAb == << "A", "b" >>
sCd == << "C", "d" >>

TextPage(lines) == [ text |-> lines, blocks |-> << >> ]

\* a contents page: a line before the heading, a padded title, a page
\* number, the heading again in capitals, a second title
pgToc ==
  TextPage(<< << "x" >>, Heading, << " ", "A", "b", " " >>, << "3" >>,
              << "T", "A", "R", "T", "A", "L", "O", "M" >>, sCd >>)
\* a contents page that lists the same title twice
pgTocDup == TextPage(<< Heading, sAb, << " ", "A", "b" >> >>)
\* the heading only inside a longer line
pgInline == TextPage(<< << "A", " " >> \o Heading, sCd >>)
\* a chapter page: the title alone
pgChapter == TextPage(<< << " ", "A", "b", " " >> >>)
\* a poem page: one title as a line, the other inside a line, body lines
pgPoem == TextPage(<< sCd, << "x", "A", "b", "y" >>, << "z" >>, << "w" >> >>)
\* the heading as part of a longer word
pgNotWord == TextPage(<< Heading \o << "x" >>, << "1", "2" >> >>)
\* the heading with nothing but a page number beneath it
pgHeadOnly == TextPage(<< Heading, << "1", "2" >> >>)

TextPool == { pgToc, pgTocDup, pgInline, pgChapter, pgPoem, pgNotWord, pgHeadOnly }
TextFront == { pgToc, pgChapter }

Span(size, text) == [ size |-> size, text |-> text ]
Line(spans) == [ spans |-> spans ]
Block(type, lines) == [ type |-> type, lines |-> lines ]
BlockPage(blocks) == [ text |-> << >>, blocks |-> blocks ]

\* an image and nothing else
scImage == BlockPage(<< Block(1, << >>) >>)
\* the first text block has no lines; a later one has a large heading
scNoLines ==
  BlockPage(<< Block(0, << >>), Block(0, << Line(<< Span(26, sAb) >>) >>) >>)
\* the first line has no spans
scNoSpans ==
  BlockPage(<< Block(0, << Line(<< >>), Line(<< Span(26, sAb) >>) >>) >>)
\* a chapter heading in two spans, after an image
scChapter ==
  BlockPage(<< Block(1, << >>),
               Block(0, << Line(<< Span(26, << "A" >>), Span(12, << "b", " " >>) >>) >>) >>)
\* a poem title
scPoem == BlockPage(<< Block(0, << Line(<< Span(18, << " ", "C", "d" >>) >>) >>) >>)
\* body text
scBody == BlockPage(<< Block(0, << Line(<< Span(12, << "x" >>) >>) >>) >>)
\* a first span of exactly the upper threshold
scEdge == BlockPage(<< Block(0, << Line(<< Span(24, sCd) >>) >>) >>)
\* a large first span that holds only a space
scSpace == BlockPage(<< Block(0, << Line(<< Span(26, << " " >>) >>) >>) >>)

ScanPool == { scImage, scNoLines, scNoSpans, scChapter, scPoem, scBody, scEdge, scSpace }
ScanFront == { scChapter, scImage }

SeqsUpTo(S, n) == UNION { [ 1..k -> S ] : k \in 0..n }

\* documents of at least one page: up to two front pages, then the body
DocsOf(front, pool) ==
  LET fronts == SeqsUpTo(front, ScanStartPage) \ { << >> }
      bodies == SeqsUpTo(pool, MaxBody)
  IN { fb[1] \o fb[2] :
         fb \in { x \in fronts \X bodies : x[2] = << >> \/ Len(x[1]) = ScanStartPage } }

TextDocs == DocsOf(TextFront, TextPool)
\* documents handed to a direct call of the resolver: content pages only
ResolvePool == { pgTocDup, pgChapter, pgPoem, pgNotWord }
ResolveDocs == SeqsUpTo(ResolvePool, MaxBody + 1) \ { << >> }
ScanDocs == DocsOf(ScanFront, ScanPool)

TitleLists == SeqsUpTo({ sAb, sCd }, MaxTitles)

\* page heights (0.1 mm): one row, or three rows, fit under the heading
PageHeights == { 600, 732, 750 }

Pipelines == { "main", "runner_extract", "runner_scan" }
Modes == Pipelines \cup { "resolve" }

(***************************************************************************)
(* The state machine.                                                      *)
(***************************************************************************)
NotRendered == [ pages |-> 0, breaks |-> 0, rows |-> << >> ]

\* the font files of a machine: the bundled pair, the Windows pair, DejaVu
\* Serif alone, half of the bundled pair
FontEnvs == { GaramondFiles, TimesFiles, DejaVuFiles, { "EBGaramond-Regular.ttf" } }

\* the font directories have not been looked at yet
FontsUnread == { "unread" }

Init ==
  /\ mode \in Modes
  /\ doc \in (IF mode = "runner_scan" THEN ScanDocs
              ELSE IF mode = "resolve" THEN ResolveDocs ELSE TextDocs)
  /\ height = 0
  /\ toc_titles \in (IF mode = "resolve" THEN TitleLists ELSE { << >> })
  /\ start \in (IF mode = "resolve" THEN 0..page_count(doc) ELSE { ScanStartPage })
  /\ pc = (IF mode = "resolve" THEN "resolve"
           ELSE IF mode = "main" THEN "extract" ELSE "import")
  /\ items = << >>
  /\ toc_pages = 0
  /\ toc_file = NotRendered
  /\ out = << >>
  /\ err = "none"
  /\ err_title = << >>
  /\ fonts = FontsUnread
  /\ steps = << >>
  /\ counts = << >>
  /\ low = {}

\* loading a runner: its from toc_core import (...) line
Import ==
  /\ pc = "import"
  /\ err' = IF ImportFails(mode) THEN "ImportError" ELSE err
  /\ pc' = IF ImportFails(mode) THEN "failed"
           ELSE IF mode = "runner_scan" THEN "scan" ELSE "extract"
  /\ UNCHANGED << mode, doc, height, toc_titles, start, items, toc_pages, toc_file, out,
                  err_title, fonts, steps, counts, low >>

\* toc_titles = extract_toc_titles(doc)
Extract ==
  /\ pc = "extract"
  /\ LET r == extract_toc_titles(doc) IN
       /\ err' = r.err
       /\ toc_titles' = r.titles
       /\ pc' = IF r.err = "none" THEN "resolve" ELSE "failed"
  /\ UNCHANGED << mode, doc, height, start, items, toc_pages, toc_file, out, err_title,
                  fonts, steps, counts, low >>

\* items = find_title_occurrence_ordered(doc, toc_titles, start)
Resolve ==
  /\ pc = "resolve"
  /\ LET r == find_title_occurrence_ordered(doc, toc_titles, start) IN
       /\ err' = r.err
       /\ err_title' = r.title
       /\ items' = r.items
       /\ pc' = IF r.err # "none" THEN "failed"
                ELSE IF mode = "resolve" THEN "done" ELSE "seed"
  /\ UNCHANGED << mode, doc, height, toc_titles, start, toc_pages, toc_file, out,
                  fonts, steps, counts, low >>

\* items = build_toc_from_scan(doc)
Scan ==
  /\ pc = "scan"
  /\ items' = build_toc_from_scan(doc)
  /\ pc' = "seed"
  /\ UNCHANGED << mode, doc, height, toc_titles, start, toc_pages, toc_file, out, err, err_title,
                  fonts, steps, counts, low >>

\* the placeholder pass, final = orig, and the page size read from page 0
Seed ==
  /\ pc = "seed"
  /\ items' = SeedItems(items)
  /\ height' \in PageHeights
  /\ steps' = Append(steps, "seed")
  /\ pc' = "render"
  /\ UNCHANGED << mode, doc, toc_titles, start, toc_pages, toc_file, out, err, err_title,
                  fonts, counts, low >>

\* the first render, on the font files the machine has and with the float
\* sums falling as they do for this page size and these levels; main()
\* keeps the returned value as toc_pages
Render ==
  /\ pc = "render"
  /\ fonts' \in FontEnvs
  /\ low' \in Roundings(items, height)
  /\ steps' = Append(steps, "render")
  /\ LET r == RenderOutcome(mode, items, height, fonts', toc_file, low') IN
       /\ toc_file' = r.file
       /\ err' = r.err
       /\ IF r.err # "none"
            THEN /\ pc' = "failed"
                 /\ UNCHANGED << toc_pages, counts >>
            ELSE /\ toc_pages' = IF mode = "main" THEN RenderReturn(mode, items, height)[1]
                                 ELSE toc_pages
                 /\ counts' = Append(counts, RenderReturn(mode, items, height))
                 /\ pc' = IF mode = "main" THEN "recompute" ELSE "merge"
  /\ UNCHANGED << mode, doc, height, toc_titles, start, items, out, err_title >>

\* step 5 of main(): final page numbers from toc_pages
Recompute ==
  /\ pc = "recompute"
  /\ items' = RecomputeItems(items, insertion_index(doc), toc_pages)
  /\ steps' = Append(steps, "recompute")
  /\ pc' = "rerender"
  /\ UNCHANGED << mode, doc, height, toc_titles, start, toc_pages, toc_file, out, err, err_title,
                  fonts, counts, low >>

\* step 6 of main(): render again, and once more if the count changed
Rerender ==
  /\ pc = "rerender"
  /\ LET r2 == RenderOutcome(mode, items, height, fonts, toc_file, low)
         toc_pages2 == RenderReturn(mode, items, height)[1]
     IN IF r2.err # "none"
          THEN /\ err' = r2.err
               /\ pc' = "failed"
               /\ steps' = Append(steps, "render")
               /\ UNCHANGED << toc_pages, items, toc_file, counts >>
          ELSE IF NeedsThirdPass(toc_pages, toc_pages2)
          THEN /\ toc_pages' = toc_pages2
               /\ items' = RecomputeItems(items, insertion_index(doc), toc_pages2)
               /\ toc_file' = RenderOutcome(mode, items', height, fonts, r2.file, low).file
               /\ steps' = steps \o << "render", "recompute", "render" >>
               /\ counts' = counts \o << << toc_pages2 >>, RenderReturn(mode, items', height) >>
               /\ err' = err
               /\ pc' = "merge"
          ELSE /\ toc_file' = r2.file
               /\ steps' = Append(steps, "render")
               /\ counts' = Append(counts, << toc_pages2 >>)
               /\ err' = err
               /\ pc' = "merge"
               /\ UNCHANGED << toc_pages, items >>
  /\ UNCHANGED << mode, doc, height, toc_titles, start, out, err_title, fonts, low >>

\* the original pages, then the pages of the rendered TOC file; save; a
\* runner then leaves the with block of its temporary directory
Merge ==
  /\ pc = "merge"
  /\ out' = AssembleOutput(doc, toc_file)
  /\ toc_file' = TocFileAfterMerge(mode, toc_file)
  /\ pc' = "done"
  /\ UNCHANGED << mode, doc, height, toc_titles, start, items, toc_pages, err, err_title,
                  fonts, steps, counts, low >>

Next ==
  \/ Import
  \/ Extract
  \/ Resolve
  \/ Scan
  \/ Seed
  \/ Render
  \/ Recompute
  \/ Rerender
  \/ Merge

Spec == Init /\ [][Next]_vars

(***************************************************************************)
(* Where a run stands.                                                     *)
(***************************************************************************)
\* extract_toc_titles has returned a title list
ExtractReturned ==
  /\ mode \in { "main", "runner_extract" }
  /\ pc \notin { "import", "extract" }
  /\ err \notin { "ImportError", "HeadingNotFound", "EmptyTitleList" }

\* find_title_occurrence_ordered has ended, by return or by raising
ResolveEnded ==
  \/ mode = "resolve" /\ pc \in { "done", "failed" }
  \/ ExtractReturned /\ pc # "resolve"

ResolveReturned == ResolveEnded /\ err = "none"

ScanReturned == mode = "runner_scan" /\ pc \notin { "import", "scan" }

RunDone == mode \in Pipelines /\ pc = "done"

\* extract_toc_titles was called and has ended, by return or by raising
ExtractEnded ==
  /\ mode \in { "main", "runner_extract" }
  /\ pc \notin { "import", "extract" }
  /\ err # "ImportError"

IsTocPage(pg) == pg.from = "toc"

\* the TOC pages of the output, in output order
OutTocPages == SelectSeq(out, IsTocPage)

RECURSIVE RowsOfPages(_)
RowsOfPages(pages) ==
  IF pages = << >> THEN << >> ELSE Head(pages).rows \o RowsOfPages(Tail(pages))

\* the rows printed in the output, in output order
OutTocRows == RowsOfPages(OutTocPages)

\* the pages of the TOC of a run that got past its renders: of the file to
\* be merged, and of the output once it is written
TocPageCount == IF pc = "done" THEN Len(OutTocPages) ELSE toc_file.pages

\* page p holds title t, as a line of its own or inside a line
PageMatches(p, t) == PageHasFullLine(doc, p, t) \/ PageHasSubstring(doc, p, t)

\* the pages at or after cursor c that hold title t
MatchesFrom(t, c) == { p \in c..(page_count(doc) - 1) : PageMatches(p, t) }

Least(S) == CHOOSE x \in S : \A y \in S : x <= y

(***************************************************************************)
(* C1.  After a successful run every page number printed in the TOC points *)
(* at the right page of the output: the output page at position finalPage  *)
(* is the source page originalPage of that entry.                          *)
(***************************************************************************)
C1_PrintedPagesAccurate ==
  RunDone =>
    LET rows == OutTocRows IN
    /\ Len(rows) = Len(items)
    /\ \A i \in 1..Len(items) :
         /\ rows[i].title = items[i].title
         /\ rows[i].printed \in 1..Len(out)
         /\ out[rows[i].printed] =
              [ from |-> "src", page |-> items[i].orig_page_1based ]

C1_Witness ==
  /\ RunDone
  /\ mode = "main"
  /\ Len(items) >= 2
  /\ Len(OutTocPages) >= 2

(***************************************************************************)
(* C2.  The pages returned by find_title_occurrence_ordered are strictly   *)
(* increasing in list order (equal titles get different pages) and every   *)
(* one is greater than the start cursor index.                             *)
(***************************************************************************)
C2_StrictlyIncreasing ==
  ResolveReturned =>
    /\ \A i, j \in 1..Len(items) :
         i < j => items[i].orig_page_1based < items[j].orig_page_1based
    /\ \A i \in 1..Len(items) : items[i].orig_page_1based > start

C2_Witness ==
  /\ ResolveReturned
  /\ mode = "resolve"
  /\ start > 0
  /\ Len(items) = 2
  /\ items[1].title = items[2].title
  /\ items[1].orig_page_1based < items[2].orig_page_1based

(***************************************************************************)
(* C3.  Shift correctness: with N the insertion point (the TOC goes after  *)
(* page N; here always the last page) and k the pages of the final render, *)
(* entries after N carry originalPage + k, the others originalPage.        *)
(***************************************************************************)
C3_ShiftCorrect ==
  (mode \in Pipelines /\ pc \in { "merge", "done" }) =>
    \A i \in 1..Len(items) :
      /\ items[i].orig_page_1based > insertion_index(doc) =>
           items[i].final_page_1based = items[i].orig_page_1based + TocPageCount
      /\ items[i].orig_page_1based <= insertion_index(doc) =>
           items[i].final_page_1based = items[i].orig_page_1based

C3_Witness ==
  /\ mode = "main"
  /\ pc = "done"
  /\ TocPageCount >= 2
  /\ \E i \in 1..Len(items) : items[i].orig_page_1based = insertion_index(doc)

(***************************************************************************)
(* C4.  One entry per title, same order, same text; entry i sits on the    *)
(* first page at or after its cursor that holds the title as a line or as  *)
(* a substring, the cursor being the start cursor for the first title and  *)
(* the page after the previous match for the others.                       *)
(***************************************************************************)
C4_CursorOf(i) == IF i = 1 THEN start ELSE items[i - 1].orig_page_1based

C4_FirstMatchInOrder ==
  ResolveReturned =>
    /\ Len(items) = Len(toc_titles)
    /\ \A i \in 1..Len(items) :
         LET found == MatchesFrom(toc_titles[i], C4_CursorOf(i)) IN
         /\ items[i].title = toc_titles[i]
         /\ found # {}
         /\ items[i].orig_page_1based = 1 + Least(found)

\* a page with only a substring match wins over a later full-line page
C4_Witness ==
  /\ ResolveReturned
  /\ mode = "resolve"
  /\ \E i \in 1..Len(items) :
       LET p == items[i].orig_page_1based - 1 IN
       /\ ~PageHasFullLine(doc, p, items[i].title)
       /\ \E q \in (p + 1)..(page_count(doc) - 1) : PageHasFullLine(doc, q, items[i].title)

(***************************************************************************)
(* C5.  If a title has no page at or after its cursor, the resolver raises *)
(* TitleNotFound for the first such title and returns no list.             *)
(***************************************************************************)
\* the cursor of title i when every title before it is found (-1 if one of
\* them is not): the start cursor, then the page after the previous match
RECURSIVE C5_Cursor(_)
C5_Cursor(i) ==
  IF i = 1 THEN start
  ELSE LET c == C5_Cursor(i - 1) IN
       IF c = -1 \/ MatchesFrom(toc_titles[i - 1], c) = {} THEN -1
       ELSE Least(MatchesFrom(toc_titles[i - 1], c)) + 1

\* title k is the first one without a page
C5_FirstMissing(k) ==
  LET c == C5_Cursor(k) IN c # -1 /\ MatchesFrom(toc_titles[k], c) = {}

C5_MissingTitleRaises ==
  ResolveEnded =>
    LET missing == { k \in 1..Len(toc_titles) : C5_FirstMissing(k) } IN
    /\ missing # {} <=> err = "TitleNotFound"
    /\ err = "TitleNotFound" =>
         /\ pc = "failed"
         /\ items = << >>
         /\ \E k \in missing : err_title = toc_titles[k]

\* the second of two equal titles has no further page, though pages before
\* the cursor hold it
C5_Witness ==
  /\ ResolveEnded
  /\ err = "TitleNotFound"
  /\ Len(toc_titles) = 2
  /\ toc_titles[1] = toc_titles[2]
  /\ C5_FirstMissing(2)
  /\ \E p \in 0..(page_count(doc) - 1) : PageMatches(p, err_title)

(***************************************************************************)
(* C6.  render_toc_pdf hands back the number of TOC pages it laid out:     *)
(* one more than the page breaks of the layout.                            *)
(***************************************************************************)
C6_ReturnsPageCount ==
  (mode = "main" /\ pc \in { "recompute", "rerender", "merge", "done" }) =>
    /\ RenderReturn(mode, items, height) = << 1 + Layout(items, height, low).breaks >>
    /\ toc_pages = 1 + toc_file.breaks

(***************************************************************************)
(* C7.  extract_toc_titles works on the first page that holds the heading  *)
(* as a whole word and returns, in order, the normalized non-empty lines   *)
(* after the heading line that are neither digits only nor the heading in  *)
(* any letter case; lines before the heading line are never collected.     *)
(***************************************************************************)
C7_TocPage == Least(HeadingPages(doc))

C7_Usable(l) ==
  /\ \E i \in 1..Len(l) : l[i] \notin Digits
  /\ lower(l) # << "t", "a", "r", "t", "a", "l", "o", "m" >>

C7_TitlesAfterHeading ==
  ExtractReturned =>
    /\ HeadingPages(doc) # {}
    /\ LET lines == page_lines(doc, C7_TocPage)
           headings == { i \in 1..Len(lines) : lines[i] = Heading }
       IN /\ headings # {}
          /\ toc_titles = SelectSeq(SubSeq(lines, Least(headings) + 1, Len(lines)), C7_Usable)
    /\ doc[C7_TocPage + 1] = pgToc => toc_titles = << sAb, sCd >>

\* the contents page comes after a page that holds the heading only as
\* part of a longer word, and has a line before its heading line
C7_Witness ==
  /\ ExtractReturned
  /\ doc[C7_TocPage + 1] = pgToc
  /\ \E p \in 0..(C7_TocPage - 1) : doc[p + 1] = pgNotWord
  /\ toc_titles = << sAb, sCd >>

(***************************************************************************)
(* C8.  Scan mode: a first run larger than 24 gives a Chapter entry, one   *)
(* larger than 16 and at most 24 (24 included) an Entry, any other size    *)
(* no entry.                                                               *)
(***************************************************************************)
C8_TextBlocks(p) == SelectSeq(doc[p + 1].blocks, IsTextBlock)

\* the page has a first run, and its first line is not blank
C8_HasFirstRun(p) ==
  /\ C8_TextBlocks(p) # << >>
  /\ C8_TextBlocks(p)[1].lines # << >>
  /\ C8_TextBlocks(p)[1].lines[1].spans # << >>
  /\ normalize_line(JoinSpans(C8_TextBlocks(p)[1].lines[1].spans)) # << >>

C8_Size(p) == C8_TextBlocks(p)[1].lines[1].spans[1].size

C8_LevelsOf(p) ==
  { items[i].level : i \in { j \in 1..Len(items) : items[j].orig_page_1based = p + 1 } }

C8_ClassifiedByThresholds ==
  ScanReturned =>
    \A p \in ScanStartPage..(page_count(doc) - 1) :
      C8_HasFirstRun(p) =>
        /\ C8_Size(p) > ChapterMinSize => C8_LevelsOf(p) = { 0 }
        /\ (PoemMinSize < C8_Size(p) /\ C8_Size(p) <= ChapterMinSize) => C8_LevelsOf(p) = { 1 }
        /\ C8_Size(p) <= PoemMinSize => C8_LevelsOf(p) = {}

(***************************************************************************)
(* C9.  build_toc_from_scan: one entry for every page at or after the      *)
(* start index whose first run qualifies by font size and none for any     *)
(* other page, originalPage = index + 1, finalPage = -1, strictly          *)
(* increasing pages, no error for pages without blocks, lines or runs.     *)
(***************************************************************************)
ScanJustReturned == mode = "runner_scan" /\ pc = "seed"

\* the page has a first run and the size test gives it a level
C9_QualifiesBySize(p) ==
  /\ C8_TextBlocks(p) # << >>
  /\ C8_TextBlocks(p)[1].lines # << >>
  /\ C8_TextBlocks(p)[1].lines[1].spans # << >>
  /\ ClassifyLevel(C8_Size(p)) # -1

C9_EntriesAre(pages) ==
  /\ { items[i].orig_page_1based : i \in 1..Len(items) } = { p + 1 : p \in pages }
  /\ Len(items) = Cardinality(pages)
  /\ \A i, j \in 1..Len(items) :
       i < j => items[i].orig_page_1based < items[j].orig_page_1based
  /\ \A i \in 1..Len(items) : items[i].final_page_1based = -1

\* the claim as stated: the font size alone decides
C9_OnePerQualifyingSize ==
  ScanJustReturned =>
    C9_EntriesAre({ p \in ScanStartPage..(page_count(doc) - 1) : C9_QualifiesBySize(p) })

\* amended: the size qualifies and the first line is not blank once
\* normalized
C9_OnePerQualifyingTitledPage ==
  ScanJustReturned =>
    C9_EntriesAre({ p \in ScanStartPage..(page_count(doc) - 1) :
                     C9_QualifiesBySize(p) /\ C8_HasFirstRun(p) })

\* a qualifying page before the start index, a page of a blank large first
\* line and a qualifying page after it
C9_Witness ==
  /\ ScanJustReturned
  /\ doc[1] = scChapter
  /\ page_count(doc) = 4
  /\ doc[3] = scSpace
  /\ Len(items) = 1
  /\ items[1].orig_page_1based = 4

(***************************************************************************)
(* C10.  The output has as many pages as the source plus the rendered TOC, *)
(* and the source pages keep their order.                                  *)
(***************************************************************************)
C10_IsSource(pg) == pg.from = "src"

C10_PageCountAndOrder ==
  RunDone =>
    /\ Len(out) = page_count(doc) + Layout(items, height, low).pages
    /\ Len(SelectSeq(out, C10_IsSource)) = page_count(doc)
    /\ \A i \in 1..page_count(doc) : SelectSeq(out, C10_IsSource)[i].page = i

C10_Witness ==
  /\ RunDone
  /\ page_count(doc) >= 3
  /\ Layout(items, height, low).pages = 2
  /\ Len(out) = page_count(doc) + 2

(***************************************************************************)
(* C11.  Running the page-number pass a second time, on the entries the    *)
(* first run left and with the same document and page size, gives every    *)
(* entry the same finalPage and renders the same number of TOC pages.      *)
(***************************************************************************)
C11_SolverIdempotent ==
  (mode \in Pipelines /\ pc \in { "merge", "done" }) =>
    LET again == Solver(mode, items, doc, height, low) IN
      /\ Len(again.items) = Len(items)
      /\ \A i \in 1..Len(items) :
           again.items[i].final_page_1based = items[i].final_page_1based
      /\ again.file.pages = TocPageCount
      /\ mode = "main" => again.toc_pages = toc_pages

C11_Witness ==
  /\ mode = "main"
  /\ pc = "merge"
  /\ Len(items) >= 2
  /\ toc_file.pages >= 2
  /\ Solver(mode, items, doc, height, low).items = items

(***************************************************************************)
(* C12.  A run that fails with a core error (heading not found, empty      *)
(* title list, title not found, no usable font) never writes the output:   *)
(* the output exists only after the final save of a run without error, and *)
(* a missing font fails the render before anything is drawn.               *)
(***************************************************************************)
C12_CoreErrors ==
  { "HeadingNotFound", "EmptyTitleList", "TitleNotFound", "FontResourceMissing" }

C12_NoOutputOnCoreError ==
  mode \in Pipelines =>
    /\ out # << >> => (pc = "done" /\ err = "none" /\ Len(OutTocPages) >= 1)
    /\ pc = "failed" => out = << >>
    /\ err \in C12_CoreErrors => (pc = "failed" /\ out = << >>)
    /\ err = "FontResourceMissing" =>
         (toc_file = NotRendered /\ register_eb_garamond(mode, fonts) = << >>)

C12_Witness ==
  /\ mode = "runner_scan"
  /\ pc = "failed"
  /\ err = "FontResourceMissing"
  /\ fonts = DejaVuFiles
  /\ Len(items) >= 1
  /\ out = << >>

(***************************************************************************)
(* C13.  extract_toc_titles never returns an empty list: when a page with  *)
(* the heading is found and no usable title line lies beneath a heading    *)
(* line of its own (none at all when the heading only occurs inside a      *)
(* longer line), the call raises the empty-title-list error.               *)
(***************************************************************************)
C13_UsableBeneath ==
  LET lines == page_lines(doc, Least(HeadingPages(doc)))
      headings == { i \in 1..Len(lines) : lines[i] = Heading }
  IN IF headings = {} THEN << >>
     ELSE SelectSeq(SubSeq(lines, Least(headings) + 1, Len(lines)), C7_Usable)

C13_NeverReturnsEmpty ==
  ExtractEnded =>
    /\ err \notin { "HeadingNotFound", "EmptyTitleList" } => toc_titles # << >>
    /\ (HeadingPages(doc) # {} /\ C13_UsableBeneath = << >>) =>
         (err = "EmptyTitleList" /\ pc = "failed" /\ toc_titles = << >>)
    /\ err = "EmptyTitleList" => (HeadingPages(doc) # {} /\ C13_UsableBeneath = << >>)

\* the heading page holds the heading only inside a longer line, with a
\* title-like line beneath it
C13_Witness ==
  /\ mode = "main"
  /\ pc = "failed"
  /\ err = "EmptyTitleList"
  /\ HeadingPages(doc) # {}
  /\ doc[Least(HeadingPages(doc)) + 1] = pgInline

(***************************************************************************)
(* C14.  The page-number pass of main() ends after a bounded number of     *)
(* steps: seed, render, recompute, render, and one more recompute and      *)
(* render exactly when the second render returned another count than the   *)
(* first; it renders two or three times and no step of it ever blocks.     *)
(***************************************************************************)
C14_ShortPass == << "seed", "render", "recompute", "render" >>

C14_LongPass == C14_ShortPass \o << "recompute", "render" >>

C14_Renders == Cardinality({ i \in 1..Len(steps) : steps[i] = "render" })

C14_BoundedPasses ==
  mode = "main" =>
    /\ Len(steps) <= Len(C14_LongPass)
    /\ steps = SubSeq(C14_LongPass, 1, Len(steps))
    /\ C14_Renders <= 3
    /\ pc \in { "seed", "render", "recompute", "rerender" } =>
         ENABLED (Seed \/ Render \/ Recompute \/ Rerender)
    /\ pc \in { "merge", "done" } =>
         /\ Len(counts) >= 2
         /\ C14_Renders = Len(counts)
         /\ C14_Renders \in { 2, 3 }
         /\ steps = IF counts[2] # counts[1] THEN C14_LongPass ELSE C14_ShortPass

C14_Witness ==
  /\ mode = "main"
  /\ pc = "done"
  /\ steps = C14_ShortPass
  /\ counts = << << 1 >>, << 1 >> >>
  /\ toc_file.pages >= 2

(***************************************************************************)
(* C15.  render_toc_pdf tests for a page break before each row is drawn,   *)
(* after the extra gap of a chapter row: a new page starts exactly when    *)
(* the cursor is below the bottom margin, the heading is drawn on it and   *)
(* the cursor is set to the top less the heading space.  On a page whose   *)
(* usable height exceeds the heading space every row is drawn at or above  *)
(* the bottom margin, and every TOC page carries the heading.  The cursor  *)
(* is the code's float: a row whose exact cursor is the margin itself is   *)
(* below it or not as the float sum falls.                                 *)
(***************************************************************************)
C15_RowOk(i) ==
  LET rows == toc_file.rows
      reset == (height - TopMargin) - HeadingSpace
      before == IF i = 1 THEN reset ELSE rows[i - 1].y - RowHeight(items[i - 1])
      tested == IF items[i].level = 0 THEN before - ChapterGap ELSE before
      page_before == IF i = 1 THEN 1 ELSE rows[i - 1].toc_page
  IN /\ rows[i].tested = tested
     /\ rows[i].below <=>
          (tested < BottomMargin \/ (tested = BottomMargin /\ i \in low))
     /\ rows[i].new_page <=> rows[i].below
     /\ rows[i].heading <=> rows[i].new_page
     /\ rows[i].y = IF rows[i].new_page THEN reset ELSE tested
     /\ rows[i].toc_page = IF rows[i].new_page THEN page_before + 1 ELSE page_before

C15_BreakBeforeRow ==
  toc_file # NotRendered =>
    /\ Len(toc_file.rows) = Len(items)
    /\ \A i \in 1..Len(items) : C15_RowOk(i)
    /\ ((height - TopMargin) - BottomMargin > HeadingSpace) =>
         \A i \in 1..Len(items) : toc_file.rows[i].y >= BottomMargin
    /\ \A p \in 2..toc_file.pages :
         \E i \in 1..Len(items) :
           toc_file.rows[i].toc_page = p /\ toc_file.rows[i].heading

\* a chapter row that fitted before its gap and not after it
C15_Witness ==
  /\ toc_file # NotRendered
  /\ height = 750
  /\ \E i \in 1..Len(toc_file.rows) :
       /\ items[i].level = 0
       /\ toc_file.rows[i].new_page
       /\ toc_file.rows[i].tested + ChapterGap >= BottomMargin
       /\ toc_file.rows[i].y >= BottomMargin

(***************************************************************************)
(* C16.  Once the entry list is built no later step changes its length,    *)
(* its order or the title, originalPage or level of an entry.  Every       *)
(* finalPage is -1 when the list is returned; only the page-number pass    *)
(* writes finalPage, on entries whose originalPage is set; render_toc_pdf  *)
(* and the assembly leave every entry as it is.                            *)
(***************************************************************************)
C16_Returned ==
  \/ pc = "seed"
  \/ mode = "resolve" /\ pc = "done"

C16_FrameStep ==
  pc \in { "seed", "render", "recompute", "rerender", "merge" } =>
    /\ Len(items') = Len(items)
    /\ \A i \in 1..Len(items) :
         /\ items'[i].title = items[i].title
         /\ items'[i].orig_page_1based = items[i].orig_page_1based
         /\ items'[i].level = items[i].level
         /\ items'[i].final_page_1based # items[i].final_page_1based =>
              (pc \in { "seed", "recompute", "rerender" } /\ items[i].orig_page_1based >= 1)
    /\ pc \in { "render", "merge" } => items' = items

C16_EntriesFramed ==
  /\ [](C16_Returned => \A i \in 1..Len(items) : items[i].final_page_1based = -1)
  /\ [][C16_FrameStep]_vars

C16_Witness ==
  /\ mode = "runner_scan"
  /\ pc = "done"
  /\ Len(items) >= 2
  /\ \A i \in 1..Len(items) :
       items[i].final_page_1based = items[i].orig_page_1based

====
